---- MODULE Spec2Model ----
(***************************************************************************)
(* Model of the QR check-in page (CheckInPage, src/unnamed/part_003) of    *)
(* the rsvp-admin dashboard, together with the parts of src/lib/api.ts it  *)
(* uses.                                                                   *)
(*                                                                         *)
(* The page is a React function component.  Its useState cells are the     *)
(* variables scanning, result, manualCode, loading, events, selectedEvent  *)
(* and cameraError; codeReaderRef is the ref cell.  React semantics that   *)
(* the model keeps:                                                        *)
(*   - a function created during a render closes over that render's state; *)
(*     the decode callback registered by startScanning therefore calls the *)
(*     validateAndCheckIn of the render in which scanning became true      *)
(*     (readers[r].event is the selectedEvent of that render);             *)
(*   - the [scanning] effect runs after the render that changed scanning.  *)
(*     For an update made in a click/submit handler React renders and      *)
(*     flushes the effect synchronously; for an update made in a timer or  *)
(*     promise callback (decode callback, awaited continuation) the effect *)
(*     runs in a later task (action FlushEffect).  Pending effects are     *)
(*     flushed before the next synchronous render.                         *)
(*   - a promise continuation runs in the microtask checkpoint of the task *)
(*     that settled the promise, before any other task: while a reply is   *)
(*     settled and its continuation has not run, nothing else runs.        *)
(*   - after the component is unmounted its state cells are gone (they are *)
(*     kept at their initial values) and state setters do nothing, but     *)
(*     callbacks and continuations that are still referenced keep running. *)
(* Optional values (null / undefined) are <<>>, a present value v is <<v>>.*)
(* Text is a sequence of characters, "s" being a blank.                    *)
(***************************************************************************)
EXTENDS Integers, Sequences, FiniteSets, TLC

\* ---------------------------------------------------------------- bounds
\* startScanning() and validateAndCheckIn() calls made in one run, together
MaxStarted == 3
\* Longest device list listVideoInputDevices() returns.
MaxDevices == 3

\* ---------------------------------------------------------------- domains
EventIds == {"E1", "E2"}
Codes == {<<"a">>}
DecodedTexts == Codes \cup {<<>>}
ManualTexts == {<<>>, <<"s">>, <<"s", "b">>}
EventLists == {<<>>, <<"E1", "E2">>}

Null == <<>>
Some(x) == <<x>>
IsNull(o) == o = <<>>
Val(o) == o[1]

VARIABLES
  scanning,       \* useState(false)
  result,         \* useState<CheckInResult | null>(null)
  manualCode,     \* useState('')
  loading,        \* useState(false)
  events,         \* useState<Event[]>([])
  selectedEvent,  \* useState<string>(''), "" is the empty string
  cameraError,    \* useState<string | null>(null)
  codeReaderRef,  \* useRef<BrowserQRCodeReader | null>(null): 0 or a reader index
  effScanning,    \* value of scanning for which the [scanning] effect last ran
  fetchPending,   \* fetchEvents() is awaiting GET /event
  readers,        \* the BrowserQRCodeReader objects created so far, one per startScanning call
  attempts,       \* the validateAndCheckIn invocations that got past the first guard:
                  \* their local variables, the requests they sent and the reply they await
  userStopped,    \* the last of Start Scanning / Stop Scanning chosen by the user was Stop
  mounted,        \* the component is mounted; unmounting runs the cleanup of the mount effect
  videoInputDevices,  \* startScanning: the devices listVideoInputDevices() returned
  selectedDeviceId,   \* startScanning: the deviceId chosen among them (0: none yet)
  form                \* an event form and what eventSchema.safeParse made of it

vars == <<scanning, result, manualCode, loading, events, selectedEvent, cameraError,
          codeReaderRef, effScanning, fetchPending, readers, attempts, userStopped,
          mounted, videoInputDevices, selectedDeviceId, form>>

\* ---------------------------------------------------------------- values
\* Attendee as far as the page reads it: eventId, alreadyCheckedIn (validate
\* reply), checkedInAt (TRUE when the timestamp is non-null).
Attendee(e, already, at) == [eventId |-> e, alreadyCheckedIn |-> already, checkedInAt |-> at]
Body(v, s, a, m) == [valid |-> v, success |-> s, attendee |-> a, message |-> m]

\* Bodies of 2xx replies (interface CheckInResult): one of each shape the
\* guards of validateAndCheckIn tell apart.
ValidateBodies ==
  {Body(FALSE, FALSE, Null, Null),
   Body(TRUE, FALSE, Null, Some("srv")),
   Body(FALSE, FALSE, Some(Attendee("E1", FALSE, FALSE)), Null),
   Body(TRUE, FALSE, Some(Attendee("E1", FALSE, FALSE)), Null),
   Body(TRUE, FALSE, Some(Attendee("E1", TRUE, TRUE)), Null),
   Body(TRUE, FALSE, Some(Attendee("E2", FALSE, FALSE)), Null)}
CommitBodies ==
  {Body(FALSE, FALSE, Null, Null),
   Body(FALSE, FALSE, Some(Attendee("E1", FALSE, FALSE)), Some("srv")),
   Body(FALSE, TRUE, Some(Attendee("E1", FALSE, TRUE)), Null),
   Body(FALSE, TRUE, Some(Attendee("E2", FALSE, FALSE)), Null)}
NoBody == [valid |-> FALSE, success |-> FALSE, attendee |-> Null, message |-> Null]

\* APIError thrown by request(): status 0 for a failed fetch, the HTTP status otherwise.
NetworkError == [statusCode |-> 0, message |-> "Network error. Please check your connection."]
ApiErrors == {NetworkError, [statusCode |-> 500, message |-> "HTTP 500"]}
NoError == [statusCode |-> 200, message |-> ""]

\* Settled promise of api.get / api.post.
Resolved(b) == [ok |-> TRUE, body |-> b, err |-> NoError]
Rejected(e) == [ok |-> FALSE, body |-> NoBody, err |-> e]
ValidateReplies == {Resolved(b) : b \in ValidateBodies} \cup {Rejected(e) : e \in ApiErrors}
CommitReplies == {Resolved(b) : b \in CommitBodies} \cup {Rejected(e) : e \in ApiErrors}

\* ---------------------------------------------------------------- pure functions
RECURSIVE TrimStart(_)
TrimStart(t) == IF t # <<>> /\ Head(t) = "s" THEN TrimStart(Tail(t)) ELSE t

RECURSIVE TrimEnd(_)
TrimEnd(t) == IF t # <<>> /\ t[Len(t)] = "s" THEN TrimEnd(SubSeq(t, 1, Len(t) - 1)) ELSE t

Trim(t) == TrimEnd(TrimStart(t))

\* Mutant: the message of the error is dropped.
getErrorMessage_Generic(e) ==
  CASE e.statusCode = 403 -> "You don't have permission to perform this action."
    [] e.statusCode = 404 -> "Resource not found."
    [] e.statusCode = 500 -> "Server error. Please try again later."
    [] OTHER -> "An unexpected error occurred."
\* getErrorMessage on an APIError (400 and 401 behave as the default case).
getErrorMessage(e) ==
  CASE e.statusCode = 403 -> "You don't have permission to perform this action."
    [] e.statusCode = 404 -> "Resource not found."
    [] e.statusCode = 500 -> "Server error. Please try again later."
    [] OTHER -> IF e.message # "" THEN e.message ELSE "An unexpected error occurred."

\* a || b on an optional server message
OrElse(m, d) == IF IsNull(m) THEN d ELSE Val(m)

\* Mutants of the guards: one guard dropped each.
ValidateOutcome_NoValidCheck(body, ev) ==
  IF IsNull(body.attendee) THEN "invalid"
  ELSE IF Val(body.attendee).eventId # ev THEN "wrong_event"
  ELSE IF Val(body.attendee).alreadyCheckedIn THEN "already"
  ELSE "commit"
ValidateOutcome_NoEventGuard(body, ev) ==
  IF ~body.valid \/ IsNull(body.attendee) THEN "invalid"
  ELSE IF Val(body.attendee).alreadyCheckedIn THEN "already"
  ELSE "commit"
ValidateOutcome_NoAlreadyGuard(body, ev) ==
  IF ~body.valid \/ IsNull(body.attendee) THEN "invalid"
  ELSE IF Val(body.attendee).eventId # ev THEN "wrong_event"
  ELSE "commit"

\* The guards of validateAndCheckIn between the validate reply and the commit.
ValidateOutcome(body, ev) ==
  IF ~body.valid \/ IsNull(body.attendee) THEN "invalid"
  ELSE IF Val(body.attendee).eventId # ev THEN "wrong_event"
  ELSE IF Val(body.attendee).alreadyCheckedIn THEN "already"
  ELSE "commit"

\* Mutant: the attendee of an unrecognised code is passed on.
InvalidResult_KeepsAttendee(body) ==
  [valid |-> FALSE, attendee |-> body.attendee,
   message |-> Some(OrElse(body.message, "Invalid QR code"))]
InvalidResult(body) ==
  [valid |-> FALSE, attendee |-> Null, message |-> Some(OrElse(body.message, "Invalid QR code"))]
WrongEventResult ==
  [valid |-> FALSE, attendee |-> Null, message |-> Some("This QR code is for a different event")]
AlreadyCheckedInResult(body) ==
  [valid |-> TRUE, attendee |-> body.attendee, message |-> Some("Already checked in")]
\* Mutant: the attendee of a refused check-in is passed on.
CheckInFailedResult_KeepsAttendee(body) ==
  [valid |-> FALSE, attendee |-> body.attendee,
   message |-> Some(OrElse(body.message, "Check-in failed"))]
CheckInFailedResult(body) ==
  [valid |-> FALSE, attendee |-> Null, message |-> Some(OrElse(body.message, "Check-in failed"))]
SuccessResult(body) ==
  [valid |-> TRUE, attendee |-> body.attendee, message |-> Null]
ErrorResult(e) ==
  [valid |-> FALSE, attendee |-> Null, message |-> Some(getErrorMessage(e))]

\* Result set after the validate reply when no commit follows.
ValidateResult(body, ev) ==
  CASE ValidateOutcome(body, ev) = "invalid" -> InvalidResult(body)
    [] ValidateOutcome(body, ev) = "wrong_event" -> WrongEventResult
    [] OTHER -> AlreadyCheckedInResult(body)

\* Mutant: the success result shows the attendee of the validate reply.
CommitResult_ValidateAttendee(body, validateResponse) ==
  IF ~body.success THEN CheckInFailedResult(body) ELSE SuccessResult(validateResponse)
\* Result set after the commit reply.
CommitResult(body, validateResponse) ==
  IF ~body.success THEN CheckInFailedResult(body) ELSE SuccessResult(body)

\* A BrowserQRCodeReader: where the startScanning() call that created it stands
\* ("enum": awaiting listVideoInputDevices(), "started": decodeFromVideoDevice
\* called and decoding, "rejected": decodeFromVideoDevice called and its promise
\* rejected, "nodevice" / "failed" / "novideo": returned without calling it
\* because no device was listed / the enumeration threw / there is no <video>
\* element), whether its decode subscription is
\* active, how often reset() was called on it, and the selectedEvent of the
\* render whose startScanning created it.
NewReader(ev) == [pc |-> "enum", decoding |-> FALSE, resets |-> 0, event |-> ev]
\* A reader that nothing refers to any more and that will never decode.
DeadReader == [pc |-> "dead", decoding |-> FALSE, resets |-> 0, event |-> ""]

\* reset() on one reader.
Reset(rd) == IF rd.pc = "enum" THEN [rd EXCEPT !.resets = @ + 1] ELSE DeadReader

\* Mutant: stopScanning() leaves codeReaderRef.current set.
StopScanning_KeepsRef(rs, ref) ==
  [readers |-> IF ref # 0 THEN [rs EXCEPT ![ref] = Reset(@)] ELSE rs,
   ref |-> ref]
\* stopScanning() on the reader table and the ref cell.
StopScanning(rs, ref) ==
  [readers |-> IF ref # 0 THEN [rs EXCEPT ![ref] = Reset(@)] ELSE rs,
   ref |-> 0]

\* The [scanning] effect still owed for the current value of scanning.  scanning
\* becomes true only in the Start Scanning click, whose effect runs with it, so
\* an owed effect is always the stopScanning() branch.
EffectPending == effScanning # scanning
Flushed == IF EffectPending THEN StopScanning(readers, codeReaderRef)
           ELSE [readers |-> readers, ref |-> codeReaderRef]

\* Local state of one validateAndCheckIn call: its argument, the selectedEvent
\* of its closure, where it is suspended, validateResponse once received, the
\* requests it has sent, the reply that has settled the promise it awaits.
\* origin/reader say who called it; stale says that Start Scanning, Stop
\* Scanning or Scan Next was chosen since it was called.
NewAttempt(code, ev, origin, r) ==
  [code |-> code, event |-> ev, origin |-> origin, reader |-> r, stale |-> FALSE,
   pc |-> "validate", sent |-> <<"validate">>, validateResponse |-> Null, reply |-> Null]
\* A returned call keeps nothing.
DoneAttempt ==
  [code |-> <<>>, event |-> "", origin |-> "", reader |-> 0, stale |-> FALSE,
   pc |-> "done", sent |-> <<>>, validateResponse |-> Null, reply |-> Null]

InFlight(a) == attempts[a].pc # "done"
Settled(a) == InFlight(a) /\ ~IsNull(attempts[a].reply)
\* No continuation is waiting in the microtask queue.
Idle == \A a \in 1..Len(attempts) : ~Settled(a)

\* The session moves on: every call in flight belongs to an earlier session.
MovedOn(as) == [a \in 1..Len(as) |-> IF as[a].pc # "done" THEN [as[a] EXCEPT !.stale = TRUE]
                                      ELSE as[a]]

\* A state setter called with new: it does nothing once the component is unmounted.
Set(cur, new) == IF mounted THEN new ELSE cur

\* Messages of the errors listVideoInputDevices() / decodeFromVideoDevice() fail with
\* ("" : an error without message).
CameraErrorMessages == {"Permission denied", ""}
\* err.message || 'Failed to access camera'
CameraErrorText(msg) == IF msg # "" THEN msg ELSE "Failed to access camera"

\* ---------------------------------------------------------------- device selection
\* Device labels, as character sequences ("" : a device without label).
Labels == {<<"F", "r", "o", "n", "t">>,
           <<"B", "a", "c", "k", " ", "C", "a", "m">>,
           <<"C", "a", "m", " ", "0">>,
           <<"C", "a", "m", " ", "1">>,
           <<>>,
           <<"R", "E", "A", "R">>,
           <<"E", "n", "v", "i", "r", "o", "n", "m", "e", "n", "t">>}
\* A MediaDeviceInfo; the deviceId of the i-th enumerated device is i.
Device(i, label) == [deviceId |-> i, label |-> label]
\* The lists listVideoInputDevices() can return.
DeviceLists ==
  UNION {[1..n -> Labels] : n \in 0..MaxDevices}
Devices(labels) == [i \in 1..Len(labels) |-> Device(i, labels[i])]

UpperCase == <<"A", "B", "C", "D", "E", "F", "G", "H", "I", "J", "K", "L", "M", "N", "O", "P", "Q", "R", "S", "T", "U", "V", "W", "X", "Y", "Z">>
LowerCase == <<"a", "b", "c", "d", "e", "f", "g", "h", "i", "j", "k", "l", "m", "n", "o", "p", "q", "r", "s", "t", "u", "v", "w", "x", "y", "z">>
\* String.prototype.toLowerCase
ToLowerCase(str) ==
  [i \in 1..Len(str) |->
     IF \E k \in 1..Len(UpperCase) : UpperCase[k] = str[i]
       THEN LowerCase[CHOOSE k \in 1..Len(UpperCase) : UpperCase[k] = str[i]]
       ELSE str[i]]
\* String.prototype.includes
Includes(str, search) ==
  \E i \in 0..(Len(str) - Len(search)) : SubSeq(str, i + 1, i + Len(search)) = search

\* Mutant: the labels are matched without toLowerCase().
IsBackCamera_CaseSensitive(device) ==
  \/ Includes(device.label, <<"b", "a", "c", "k">>)
  \/ Includes(device.label, <<"e", "n", "v", "i", "r", "o", "n", "m", "e", "n", "t">>)
  \/ Includes(device.label, <<"r", "e", "a", "r">>)
\* The predicate given to videoInputDevices.find.
IsBackCamera(device) ==
  \/ Includes(ToLowerCase(device.label), <<"b", "a", "c", "k">>)
  \/ Includes(ToLowerCase(device.label), <<"e", "n", "v", "i", "r", "o", "n", "m", "e", "n", "t">>)
  \/ Includes(ToLowerCase(device.label), <<"r", "e", "a", "r">>)

\* videoInputDevices.find(...): the first matching device, Null if there is none.
backCamera(devices) ==
  LET hits == {i \in 1..Len(devices) : IsBackCamera(devices[i])}
  IN IF hits = {} THEN Null
     ELSE Some(devices[CHOOSE i \in hits : \A j \in hits : i <= j])

\* The deviceId startScanning passes to decodeFromVideoDevice, for a non-empty list.
SelectDeviceId(devices) ==
  IF ~IsNull(backCamera(devices)) THEN Val(backCamera(devices)).deviceId
  ELSE IF Len(devices) > 1 THEN devices[Len(devices)].deviceId
  ELSE devices[1].deviceId

\* ---------------------------------------------------------------- eventSchema
\* Texts entered as eventStartTime / eventEndTime, as character sequences.
TimeTexts == {<<"0", "0", ":", "0", "0">>,
              <<"0", "9", ":", "3", "0">>,
              <<"1", "0", ":", "0", "0">>,
              <<"1", "0", ":", "3", "0">>,
              <<"2", "3", ":", "5", "9">>,
              <<"9", "9", ":", "9", "9">>,
              <<"9", ":", "3", "0">>,
              <<"1", "0", ":", "3", "a">>,
              <<"1", "0", "3", "0">>,
              <<>>}
Digits == <<"0", "1", "2", "3", "4", "5", "6", "7", "8", "9">>
IsDigit(c) == \E d \in 1..10 : Digits[d] = c
\* Number() on one decimal digit
DigitValue(c) == (CHOOSE d \in 1..10 : Digits[d] = c) - 1
\* Number() on a text of decimal digits
RECURSIVE Number(_)
Number(str) ==
  IF str = <<>> THEN 0
  ELSE Number(SubSeq(str, 1, Len(str) - 1)) * 10 + DigitValue(str[Len(str)])
\* /^\d{2}:\d{2}$/
MatchesTime(str) ==
  /\ Len(str) = 5
  /\ IsDigit(str[1]) /\ IsDigit(str[2])
  /\ str[3] = ":"
  /\ IsDigit(str[4]) /\ IsDigit(str[5])
\* str.split(':') on a text with one colon
Split(str) ==
  LET c == CHOOSE i \in 1..Len(str) : str[i] = ":"
  IN <<SubSeq(str, 1, c - 1), SubSeq(str, c + 1, Len(str))>>
\* hour * 60 + min of str.split(':').map(Number)
Minutes(str) == Number(Split(str)[1]) * 60 + Number(Split(str)[2])

\* Mutant: equal times pass the refinement.
EndAfterStart_AllowsEqual(data) ==
  IF data.eventStartTime # <<>> /\ data.eventEndTime # <<>>
    THEN Minutes(data.eventEndTime) >= Minutes(data.eventStartTime)
    ELSE TRUE
\* The refinement of eventSchema.
EndAfterStart(data) ==
  IF data.eventStartTime # <<>> /\ data.eventEndTime # <<>>
    THEN Minutes(data.eventEndTime) > Minutes(data.eventStartTime)
    ELSE TRUE

\* An event form: the two times, whether its other fields satisfy their rules,
\* and success of safeParse once it has run.
EventForm(start, end, rest) ==
  [eventStartTime |-> start, eventEndTime |-> end, rest |-> rest, success |-> Null]
EmptyForm == EventForm(<<>>, <<>>, FALSE)
\* eventSchema.safeParse(data).success: the object schema, then the refinement.
safeParse(data) ==
  /\ data.rest
  /\ MatchesTime(data.eventStartTime)
  /\ MatchesTime(data.eventEndTime)
  /\ EndAfterStart(data)

\* ---------------------------------------------------------------- initial state
Init ==
  /\ scanning = FALSE
  /\ result = Null
  /\ manualCode = <<>>
  /\ loading = FALSE
  /\ events = <<>>
  /\ selectedEvent = ""
  /\ cameraError = Null
  /\ codeReaderRef = 0
  /\ effScanning = FALSE
  /\ fetchPending = TRUE
  /\ readers = <<>>
  /\ attempts = <<>>
  /\ userStopped = FALSE
  /\ mounted = TRUE
  /\ videoInputDevices = <<>>
  /\ selectedDeviceId = 0
  /\ form = EmptyForm

\* ---------------------------------------------------------------- actions
\* fetchEvents(): GET /event settles.
FetchEventsDone ==
  /\ Idle
  /\ fetchPending
  /\ fetchPending' = FALSE
  /\ \/ \E list \in EventLists :
          /\ events' = Set(events, list)
          /\ selectedEvent' = Set(selectedEvent,
                                  IF Len(list) > 0 THEN list[1] ELSE selectedEvent)
     \/ UNCHANGED <<events, selectedEvent>>
  /\ UNCHANGED <<scanning, result, manualCode, loading, cameraError, codeReaderRef,
                 effScanning, readers, attempts, userStopped,
                 mounted, videoInputDevices, selectedDeviceId, form>>

\* <select onChange>: the options are the loaded events.
SelectEvent ==
  /\ Idle /\ mounted
  /\ \E i \in 1..Len(events) :
       /\ events[i] # selectedEvent
       /\ selectedEvent' = events[i]
  /\ readers' = Flushed.readers
  /\ codeReaderRef' = Flushed.ref
  /\ effScanning' = scanning
  /\ UNCHANGED <<scanning, result, manualCode, loading, events, cameraError,
                 fetchPending, attempts, userStopped,
                 mounted, videoInputDevices, selectedDeviceId, form>>

\* validateAndCheckIn(code) of a render whose selectedEvent is ev, up to its
\* first await: the first guard, setLoading(true) and the GET request.
\* Mutant: the first guard does not look at selectedEvent.
ValidationStarts_NoEventGuard(code, ev) == code # <<>>
ValidationStarts(code, ev) == code # <<>> /\ ev # ""

BeginValidation(code, ev, origin, r) ==
  IF ValidationStarts(code, ev)
    THEN /\ Len(readers) + Len(attempts) < MaxStarted
         /\ loading' = Set(loading, TRUE)
         /\ attempts' = Append(attempts, NewAttempt(code, ev, origin, r))
    ELSE UNCHANGED <<loading, attempts>>

\* "Start Scanning" button: setScanning(true); the effect runs startScanning()
\* up to await listVideoInputDevices().
ClickStartScanning ==
  /\ Idle /\ mounted
  /\ ~scanning /\ IsNull(result)
  /\ Len(readers) + Len(attempts) < MaxStarted
  /\ scanning' = TRUE
  /\ effScanning' = TRUE
  /\ cameraError' = Null
  /\ readers' = Append(Flushed.readers, NewReader(selectedEvent))
  /\ codeReaderRef' = Len(readers) + 1
  /\ attempts' = MovedOn(attempts)
  /\ userStopped' = FALSE
  /\ UNCHANGED <<result, manualCode, loading, events, selectedEvent, fetchPending,
                 mounted, videoInputDevices, selectedDeviceId, form>>

\* "Stop Scanning" button: setScanning(false); the effect runs stopScanning().
ClickStopScanning ==
  /\ Idle /\ mounted
  /\ scanning
  /\ scanning' = FALSE
  /\ effScanning' = FALSE
  /\ readers' = StopScanning(readers, codeReaderRef).readers
  /\ codeReaderRef' = StopScanning(readers, codeReaderRef).ref
  /\ attempts' = MovedOn(attempts)
  /\ userStopped' = TRUE
  /\ UNCHANGED <<result, manualCode, loading, events, selectedEvent, cameraError,
                 fetchPending,
                 mounted, videoInputDevices, selectedDeviceId, form>>

\* The [scanning] effect owed after an update made outside an event handler.
FlushEffect ==
  /\ Idle /\ mounted
  /\ EffectPending
  /\ readers' = Flushed.readers
  /\ codeReaderRef' = Flushed.ref
  /\ effScanning' = scanning
  /\ UNCHANGED <<scanning, result, manualCode, loading, events, selectedEvent,
                 cameraError, fetchPending, attempts, userStopped,
                 mounted, videoInputDevices, selectedDeviceId, form>>

\* Reader r once its startScanning() has returned without a subscription, at pc.
Ended(r, pc) == IF codeReaderRef = r THEN [readers[r] EXCEPT !.pc = pc] ELSE DeadReader

\* Mutant: the zero-device branch returns without setScanning(false).
NoCameraFound_StaysScanning(r) ==
  [readers |-> [readers EXCEPT ![r] = Ended(r, "nodevice")],
   cameraError |-> Set(cameraError, Some("No camera found")),
   scanning |-> scanning]
\* videoInputDevices.length === 0 in the startScanning() of reader r:
\* setCameraError('No camera found'); setScanning(false); return.
NoCameraFound(r) ==
  [readers |-> [readers EXCEPT ![r] = Ended(r, "nodevice")],
   cameraError |-> Set(cameraError, Some("No camera found")),
   scanning |-> Set(scanning, FALSE)]

\* startScanning() of reader r resumes after await listVideoInputDevices().
\* The <video> element exists exactly while scanning is rendered true (never
\* after the unmount, where scanning is kept false).
EnumerationDone(r) ==
  /\ Idle
  /\ readers[r].pc = "enum"
  /\ \/ \* videoInputDevices.length === 0
        /\ readers' = NoCameraFound(r).readers
        /\ cameraError' = NoCameraFound(r).cameraError
        /\ scanning' = NoCameraFound(r).scanning
     \/ \* a device is chosen; decodeFromVideoDevice() is called if videoRef.current
        \* is set, and is not awaited: it subscribes, or its promise rejects
        \* (permission denied, the stream cannot be opened) outside the try block
        /\ \/ readers' = IF scanning
                           THEN [readers EXCEPT ![r].pc = "started", ![r].decoding = TRUE]
                           ELSE [readers EXCEPT ![r] = Ended(r, "novideo")]
           \/ /\ scanning
              /\ readers' = [readers EXCEPT ![r] = Ended(r, "rejected")]
        /\ UNCHANGED <<cameraError, scanning>>
     \/ \* listVideoInputDevices() throws: the catch block
        \E msg \in CameraErrorMessages :
          /\ readers' = [readers EXCEPT ![r] = Ended(r, "failed")]
          /\ cameraError' = Set(cameraError, Some(CameraErrorText(msg)))
          /\ scanning' = Set(scanning, FALSE)
  /\ UNCHANGED <<result, manualCode, loading, events, selectedEvent, codeReaderRef,
                 effScanning, fetchPending, attempts, userStopped,
                 mounted, videoInputDevices, selectedDeviceId, form>>

\* Mutant: the callback reads the selectedEvent of the current render.
ClosureEvent_Current(r) == selectedEvent
\* The selectedEvent that the validateAndCheckIn called by the decode callback of
\* reader r reads: that of the render whose effect called startScanning().
ClosureEvent(r) == readers[r].event

\* The decode callback of reader r is called with a result whose text is text.
DecodeCallback(r, text) ==
  /\ Idle
  /\ readers[r].decoding
  /\ IF text # <<>>
       THEN /\ scanning' = Set(scanning, FALSE)
            /\ BeginValidation(text, ClosureEvent(r), "decode", r)
       ELSE UNCHANGED <<scanning, loading, attempts>>
  /\ UNCHANGED <<result, manualCode, events, selectedEvent, cameraError, codeReaderRef,
                 effScanning, fetchPending, readers, userStopped,
                 mounted, videoInputDevices, selectedDeviceId, form>>

\* Manual entry: typing into the input, shown while !scanning && !result.
TypeManualCode(t) ==
  /\ Idle /\ mounted
  /\ ~scanning /\ IsNull(result)
  /\ t # manualCode
  /\ manualCode' = t
  /\ readers' = Flushed.readers
  /\ codeReaderRef' = Flushed.ref
  /\ effScanning' = scanning
  /\ UNCHANGED <<scanning, result, loading, events, selectedEvent, cameraError,
                 fetchPending, attempts, userStopped,
                 mounted, videoInputDevices, selectedDeviceId, form>>

\* The form is shown while !scanning && !result; its submit button is
\* disabled={!manualCode.trim() || loading}.
SubmitEnabled == ~scanning /\ IsNull(result) /\ Trim(manualCode) # <<>> /\ ~loading

\* Mutant: the guard tests manualCode without trim().
handleManualSubmit_NoTrimGuard(code) ==
  IF code # <<>> THEN [calls |-> <<Trim(code)>>, manualCode |-> <<>>]
  ELSE [calls |-> <<>>, manualCode |-> code]
\* handleManualSubmit with manualCode = code: the validateAndCheckIn calls it
\* makes and the manualCode it leaves.
handleManualSubmit(code) ==
  IF Trim(code) # <<>> THEN [calls |-> <<Trim(code)>>, manualCode |-> <<>>]
  ELSE [calls |-> <<>>, manualCode |-> code]

HandleManualSubmit ==
  /\ Idle /\ mounted
  /\ SubmitEnabled
  /\ IF handleManualSubmit(manualCode).calls # <<>>
       THEN BeginValidation(handleManualSubmit(manualCode).calls[1], selectedEvent,
                            "manual", 0)
       ELSE UNCHANGED <<loading, attempts>>
  /\ manualCode' = handleManualSubmit(manualCode).manualCode
  /\ readers' = Flushed.readers
  /\ codeReaderRef' = Flushed.ref
  /\ effScanning' = scanning
  /\ UNCHANGED <<scanning, result, events, selectedEvent, cameraError, fetchPending,
                 userStopped,
                 mounted, videoInputDevices, selectedDeviceId, form>>

\* Mutant: Scan Next also resumes scanning.
resetScanner_AutoResume == [result |-> Null, manualCode |-> <<>>, scanning |-> TRUE]
\* resetScanner(): setResult(null); setManualCode(''); scanning is not set.
resetScanner == [result |-> Null, manualCode |-> <<>>, scanning |-> scanning]

\* "Scan Next" button, shown while result is set.
ResetScanner ==
  /\ Idle /\ mounted
  /\ ~IsNull(result)
  /\ result' = resetScanner.result
  /\ manualCode' = resetScanner.manualCode
  /\ scanning' = resetScanner.scanning
  /\ readers' = Flushed.readers
  /\ codeReaderRef' = Flushed.ref
  /\ effScanning' = scanning
  /\ attempts' = MovedOn(attempts)
  /\ UNCHANGED <<loading, events, selectedEvent, cameraError, fetchPending,
                 userStopped,
                 mounted, videoInputDevices, selectedDeviceId, form>>

\* The backend answers (or the transport fails) the request attempt a awaits.
ServerReply(a) ==
  /\ Idle
  /\ InFlight(a)
  /\ \E rep \in IF attempts[a].pc = "validate" THEN ValidateReplies ELSE CommitReplies :
       attempts' = [attempts EXCEPT ![a].reply = Some(rep)]
  /\ UNCHANGED <<scanning, result, manualCode, loading, events, selectedEvent,
                 cameraError, codeReaderRef, effScanning, fetchPending, readers,
                 userStopped,
                 mounted, videoInputDevices, selectedDeviceId, form>>

\* Mutant: validateAndCheckIn returns without its finally block.
FinallyLoading_Skipped == loading
\* finally { setLoading(false) }
FinallyLoading == Set(loading, FALSE)

\* validateAndCheckIn resumes after await api.get(/qr/validate/code).
ValidateContinue(a) ==
  /\ attempts[a].pc = "validate" /\ Settled(a)
  /\ LET rep == Val(attempts[a].reply)
         ev == attempts[a].event
     IN IF ~rep.ok
          THEN /\ result' = Set(result, Some(ErrorResult(rep.err)))
               /\ loading' = FinallyLoading
               /\ attempts' = [attempts EXCEPT ![a] = DoneAttempt]
          ELSE IF ValidateOutcome(rep.body, ev) # "commit"
          THEN /\ result' = Set(result, Some(ValidateResult(rep.body, ev)))
               /\ loading' = FinallyLoading
               /\ attempts' = [attempts EXCEPT ![a] = DoneAttempt]
          ELSE /\ attempts' = [attempts EXCEPT ![a].pc = "commit",
                                               ![a].sent = Append(@, "check-in"),
                                               ![a].validateResponse = Some(rep.body),
                                               ![a].reply = Null]
               /\ UNCHANGED <<result, loading>>
  /\ UNCHANGED <<scanning, manualCode, events, selectedEvent, cameraError, codeReaderRef,
                 effScanning, fetchPending, readers, userStopped,
                 mounted, videoInputDevices, selectedDeviceId, form>>

\* validateAndCheckIn resumes after await api.post(/qr/check-in/code).
CommitContinue(a) ==
  /\ attempts[a].pc = "commit" /\ Settled(a)
  /\ LET rep == Val(attempts[a].reply)
     IN /\ result' = Set(result,
                         Some(IF rep.ok
                                THEN CommitResult(rep.body, Val(attempts[a].validateResponse))
                                ELSE ErrorResult(rep.err)))
        /\ loading' = FinallyLoading
        /\ attempts' = [attempts EXCEPT ![a] = DoneAttempt]
  /\ UNCHANGED <<scanning, manualCode, events, selectedEvent, cameraError, codeReaderRef,
                 effScanning, fetchPending, readers, userStopped,
                 mounted, videoInputDevices, selectedDeviceId, form>>

\* The component is unmounted: the effects still owed run, then the cleanup of
\* the mount effect calls stopScanning(); the state cells are dropped.
Unmount ==
  /\ Idle /\ mounted
  /\ mounted' = FALSE
  /\ readers' = StopScanning(Flushed.readers, Flushed.ref).readers
  /\ codeReaderRef' = StopScanning(Flushed.readers, Flushed.ref).ref
  /\ scanning' = FALSE
  /\ effScanning' = FALSE
  /\ result' = Null
  /\ manualCode' = <<>>
  /\ loading' = FALSE
  /\ events' = <<>>
  /\ selectedEvent' = ""
  /\ cameraError' = Null
  /\ UNCHANGED <<fetchPending, attempts, userStopped, videoInputDevices,
                 selectedDeviceId, form>>

Next ==
  \/ FetchEventsDone
  \/ SelectEvent
  \/ ClickStartScanning
  \/ ClickStopScanning
  \/ FlushEffect
  \/ \E r \in 1..Len(readers) : EnumerationDone(r)
  \/ \E r \in 1..Len(readers), text \in DecodedTexts : DecodeCallback(r, text)
  \/ \E t \in ManualTexts : TypeManualCode(t)
  \/ HandleManualSubmit
  \/ ResetScanner
  \/ \E a \in 1..Len(attempts) : ServerReply(a)
  \/ \E a \in 1..Len(attempts) : ValidateContinue(a)
  \/ \E a \in 1..Len(attempts) : CommitContinue(a)
  \/ Unmount

Spec == Init /\ [][Next]_vars

\* Every request is answered or fails in the end (fetch settles its promise),
\* and the event loop runs the continuation of a settled promise.
Replies == \E a \in 1..Len(attempts) : ServerReply(a)
Continuations ==
  \E a \in 1..Len(attempts) : ValidateContinue(a) \/ CommitContinue(a)
SpecFair == Spec /\ WF_vars(Replies) /\ WF_vars(Continuations)

\* ---------------------------------------------------------------- startScanning alone
\* One call of startScanning() followed through its device selection: the
\* enumeration returns a list, then a device is chosen from a non-empty list.
ListVideoInputDevices ==
  /\ videoInputDevices = <<>> /\ selectedDeviceId = 0
  /\ \E labels \in DeviceLists :
       /\ labels # <<>>
       /\ videoInputDevices' = Devices(labels)
  /\ UNCHANGED <<scanning, result, manualCode, loading, events, selectedEvent,
                 cameraError, codeReaderRef, effScanning, fetchPending, readers,
                 attempts, userStopped, mounted, selectedDeviceId, form>>

SelectDevice ==
  /\ Len(videoInputDevices) > 0 /\ selectedDeviceId = 0
  /\ selectedDeviceId' = SelectDeviceId(videoInputDevices)
  /\ UNCHANGED <<scanning, result, manualCode, loading, events, selectedEvent,
                 cameraError, codeReaderRef, effScanning, fetchPending, readers,
                 attempts, userStopped, mounted, videoInputDevices, form>>

NextDevices ==
  \/ ListVideoInputDevices
  \/ SelectDevice

SpecDevices == Init /\ [][NextDevices]_vars

\* ---------------------------------------------------------------- eventSchema alone
\* An event form is filled in, then validated.
FillForm ==
  /\ form = EmptyForm
  /\ \E start \in TimeTexts, end \in TimeTexts, rest \in BOOLEAN :
       /\ EventForm(start, end, rest) # EmptyForm
       /\ form' = EventForm(start, end, rest)
  /\ UNCHANGED <<scanning, result, manualCode, loading, events, selectedEvent,
                 cameraError, codeReaderRef, effScanning, fetchPending, readers,
                 attempts, userStopped, mounted, videoInputDevices, selectedDeviceId>>

SafeParse ==
  /\ form # EmptyForm /\ IsNull(form.success)
  /\ form' = [form EXCEPT !.success = Some(safeParse(form))]
  /\ UNCHANGED <<scanning, result, manualCode, loading, events, selectedEvent,
                 cameraError, codeReaderRef, effScanning, fetchPending, readers,
                 attempts, userStopped, mounted, videoInputDevices, selectedDeviceId>>

NextEventForm ==
  \/ FillForm
  \/ SafeParse

SpecEventForm == Init /\ [][NextEventForm]_vars

TypeOK ==
  /\ scanning \in BOOLEAN /\ loading \in BOOLEAN /\ effScanning \in BOOLEAN
  /\ codeReaderRef \in 0..Len(readers)
  /\ EffectPending => ~scanning
  /\ selectedEvent \in EventIds \cup {""}

\* ---------------------------------------------------------------- claims
Attempts == 1..Len(attempts)
FromDecode(a) == InFlight(a) /\ attempts[a].origin = "decode"
\* The reply that attempt a is about to resume with.
ValidateReturned(a) == attempts[a].pc = "validate" /\ Settled(a) /\ Val(attempts[a].reply).ok
CommitReturned(a) == attempts[a].pc = "commit" /\ Settled(a) /\ Val(attempts[a].reply).ok
ReplyBody(a) == Val(attempts[a].reply).body
Count(seq, x) == Cardinality({i \in 1..Len(seq) : seq[i] = x})
\* A decode callback starts a validation in this step.
DecodeStartsValidation ==
  /\ Len(attempts') = Len(attempts) + 1
  /\ attempts'[Len(attempts')].origin = "decode"

\* C1: within one scan (one reader), deliveries of the same code made before
\* the validation of the first has completed start no further validation: at
\* most one validate request (and so at most one check-in request) is
\* outstanding for that scan and code.
C1_SingleValidationPerScan ==
  \A a, b \in Attempts :
    (/\ FromDecode(a) /\ FromDecode(b)
     /\ attempts[a].reader = attempts[b].reader
     /\ attempts[a].code = attempts[b].code) => a = b

\* C2: a check-in request is sent only after the validate request of the same
\* attempt has returned a reply that is valid, carries an attendee of the
\* attempt's event and is not already checked in; never before or without it.
C2_CommitOnlyAfterGuards ==
  \A a \in Attempts :
    /\ attempts[a].pc = "validate" => attempts[a].sent = <<"validate">>
    /\ Count(attempts[a].sent, "check-in") > 0 =>
         /\ attempts[a].sent = <<"validate", "check-in">>
         /\ ~IsNull(attempts[a].validateResponse)
         /\ LET b == Val(attempts[a].validateResponse)
            IN /\ b.valid
               /\ ~IsNull(b.attendee)
               /\ Val(b.attendee).eventId = attempts[a].event
               /\ ~Val(b.attendee).alreadyCheckedIn
C2_Witness == \E a \in Attempts : attempts[a].pc = "commit" /\ Settled(a)

\* C3: while the validation of an accepted decoded code is in flight (from the
\* dispatch of its validate request on), the reader that delivered the code has
\* been reset.
C3_ReleasedBeforeValidate ==
  \A a \in Attempts : FromDecode(a) => ~readers[attempts[a].reader].decoding

\* C4: a validate reply whose attendee belongs to another event than the
\* attempt's gives the different-event failure result (on the mounted page) and
\* no check-in request.
C4_WrongEvent ==
  [][\A a \in Attempts :
       (/\ ValidateReturned(a)
        /\ ReplyBody(a).valid /\ ~IsNull(ReplyBody(a).attendee)
        /\ Val(ReplyBody(a).attendee).eventId # attempts[a].event)
       => /\ attempts'[a].pc = "done"
          /\ Count(attempts'[a].sent, "check-in") = 0
          /\ mounted =>
               /\ ~IsNull(result')
               /\ ~Val(result').valid
               /\ Val(result').message = Some("This QR code is for a different event")]_vars
C4_Witness ==
  /\ ~IsNull(result)
  /\ Val(result).message = Some("This QR code is for a different event")
  /\ \A a \in Attempts : ~InFlight(a)

\* C5: a validate reply whose attendee belongs to the attempt's event and is
\* already checked in gives the already-checked-in result with that attendee (on
\* the mounted page) and no check-in request, on every scan of the code.
C5_AlreadyCheckedIn ==
  [][\A a \in Attempts :
       (/\ ValidateReturned(a)
        /\ ReplyBody(a).valid /\ ~IsNull(ReplyBody(a).attendee)
        /\ Val(ReplyBody(a).attendee).eventId = attempts[a].event
        /\ Val(ReplyBody(a).attendee).alreadyCheckedIn)
       => /\ attempts'[a].pc = "done"
          /\ Count(attempts'[a].sent, "check-in") = 0
          /\ mounted =>
               result' = Some([valid |-> TRUE, attendee |-> ReplyBody(a).attendee,
                               message |-> Some("Already checked in")])]_vars
\* the second scan of a session has been answered "already checked in"
C5_Witness ==
  /\ Len(attempts) >= 2
  /\ \A a \in Attempts : ~InFlight(a)
  /\ ~IsNull(result)
  /\ Val(result).message = Some("Already checked in")

\* C6: when the validate reply passes the guards the check-in request is sent
\* exactly once, and when the check-in reply reports success the result is the
\* success result with the attendee of the check-in reply (on the mounted page).
C6_HappyPath ==
  [][\A a \in Attempts :
       /\ (/\ ValidateReturned(a)
           /\ ReplyBody(a).valid /\ ~IsNull(ReplyBody(a).attendee)
           /\ Val(ReplyBody(a).attendee).eventId = attempts[a].event
           /\ ~Val(ReplyBody(a).attendee).alreadyCheckedIn)
          => /\ attempts'[a].pc = "commit"
             /\ Count(attempts'[a].sent, "check-in") = 1
       /\ attempts[a].pc = "commit" => Count(attempts[a].sent, "check-in") = 1
       /\ (CommitReturned(a) /\ ReplyBody(a).success)
          => /\ attempts'[a].pc = "done"
             /\ mounted =>
                  result' = Some([valid |-> TRUE, attendee |-> ReplyBody(a).attendee,
                                  message |-> Null])]_vars
C6_Witness ==
  /\ ~IsNull(result)
  /\ Val(result).valid /\ IsNull(Val(result).message)
  /\ ~IsNull(Val(result).attendee)
  /\ \A a \in Attempts : ~InFlight(a)

\* C7: a validate reply with valid=false or without an attendee gives the
\* invalid result (no attendee, the server's message or "Invalid QR code"; on
\* the mounted page) and no check-in request.
C7_Invalid ==
  [][\A a \in Attempts :
       (/\ ValidateReturned(a)
        /\ (~ReplyBody(a).valid \/ IsNull(ReplyBody(a).attendee)))
       => /\ attempts'[a].pc = "done"
          /\ Count(attempts'[a].sent, "check-in") = 0
          /\ mounted =>
               /\ ~IsNull(result')
               /\ ~Val(result').valid
               /\ IsNull(Val(result').attendee)
               /\ Val(result').message =
                    IF IsNull(ReplyBody(a).message) THEN Some("Invalid QR code")
                    ELSE ReplyBody(a).message]_vars
C7_Witness ==
  /\ ~IsNull(result)
  /\ Val(result).message = Some("Invalid QR code")
  /\ \A a \in Attempts : ~InFlight(a)

\* C8: at most one validation is in flight at any time, whichever path
\* (decode callback or manual submission) started it.
C8_SingleInFlight == Cardinality({a \in Attempts : InFlight(a)}) <= 1

\* C9: a validation whose session has moved on (Start Scanning, Stop Scanning or
\* Scan Next chosen since it began) leaves result, loading and scanning as they
\* are when it completes.
C9_StaleDiscarded ==
  [][\A a \in Attempts :
       (InFlight(a) /\ attempts[a].stale /\ attempts'[a].pc = "done")
       => /\ result' = result
          /\ loading' = loading
          /\ scanning' = scanning]_vars

\* C10: once the user has chosen Stop Scanning (and not Start Scanning since),
\* no decode callback starts a validation.
C10_NoDecodeAfterStop ==
  [][userStopped => ~DecodeStartsValidation]_vars

\* C11: in every state where the controller is not scanning (stopped, decode
\* accepted or unmounted) and owes no effect, no code reader it started is
\* still decoding.
C11_ReleasedWhenNotScanning ==
  (~scanning /\ ~EffectPending) => \A r \in 1..Len(readers) : ~readers[r].decoding

\* C12: every accepted scan attempt (a decode callback with a non-empty code, a
\* manual submission of a non-blank code) starts a validation, and every
\* validation that returns on the mounted page sets a result.
C12_AttemptReachesResult ==
  [][/\ ((\E r \in 1..Len(readers), text \in Codes : DecodeCallback(r, text))
         \/ HandleManualSubmit)
        => Len(attempts') = Len(attempts) + 1
     /\ \A a \in Attempts :
          (mounted /\ InFlight(a) /\ attempts'[a].pc = "done") => ~IsNull(result')]_vars

\* C13: while a validation is in flight no scan is started (no reader is
\* created) and no further validation begins.
C13_NothingBeginsInFlight ==
  [][(\E a \in Attempts : InFlight(a))
       => (Len(readers') = Len(readers) /\ Len(attempts') = Len(attempts))]_vars

\* C14: while no event is selected the controller does not enter Scanning and
\* acquires no camera (creates no reader).
C14_StartRequiresEvent ==
  [][selectedEvent = "" => (~scanning' /\ Len(readers') = Len(readers))]_vars

\* C15: when the camera acquisition of a started scan fails (no device, the
\* enumeration throws, or opening the device is rejected) on the mounted page,
\* the controller is back in Idle (scanning false) with cameraError set.
C15_AcquisitionFailureSurfaced ==
  [][\A r \in 1..Len(readers) :
       (/\ mounted
        /\ readers[r].pc = "enum"
        /\ readers'[r].pc \in {"nodevice", "failed", "rejected"})
       => (~scanning' /\ ~IsNull(cameraError'))]_vars

\* C16: when the enumeration of a started scan returns no device (on the
\* mounted page), cameraError is "No camera found", no decode subscription is
\* started on the reader, scanning is false, and the reader is released by the
\* effect that is then owed (nothing else can happen to it before).
C16_NoCameraFound ==
  [][\A r \in 1..Len(readers) :
       /\ (mounted /\ readers[r].pc = "enum" /\ readers'[r].pc = "nodevice")
          => /\ cameraError' = Some("No camera found")
             /\ ~scanning'
             /\ ~readers'[r].decoding
             /\ codeReaderRef' = r /\ effScanning'
       /\ readers[r].pc = "nodevice"
          => /\ ~readers[r].decoding
             /\ readers'[r] \in {readers[r], DeadReader}
             /\ readers'[r] = readers[r] => (~scanning' /\ effScanning')]_vars
\* the reader of a scan that found no device has been released
C16_Witness ==
  /\ mounted /\ ~scanning /\ ~EffectPending
  /\ cameraError = Some("No camera found")
  /\ Len(readers) = 1 /\ readers[1] = DeadReader

\* The labels that contain "back", "environment" or "rear" in any letter case.
RearLabels == {<<"B", "a", "c", "k", " ", "C", "a", "m">>, <<"R", "E", "A", "R">>, <<"E", "n", "v", "i", "r", "o", "n", "m", "e", "n", "t">>}
RearPositions == {i \in 1..Len(videoInputDevices) : videoInputDevices[i].label \in RearLabels}
\* C17: for every non-empty device list the chosen device is a rear-labelled
\* one (the first of them) if there is one, else the last device if there are
\* several, else the only device.
C17_DevicePreference ==
  selectedDeviceId # 0 =>
    IF RearPositions # {}
      THEN /\ selectedDeviceId \in RearPositions
           /\ \A i \in RearPositions : selectedDeviceId <= i
      ELSE IF Len(videoInputDevices) > 1
      THEN selectedDeviceId = Len(videoInputDevices)
      ELSE selectedDeviceId = 1
\* a rear-labelled device in the middle of three was chosen
C17_Witness ==
  /\ Len(videoInputDevices) = 3
  /\ videoInputDevices[1].label = <<"F", "r", "o", "n", "t">>
  /\ videoInputDevices[2].label = <<"B", "a", "c", "k", " ", "C", "a", "m">>
  /\ videoInputDevices[3].label = <<"C", "a", "m", " ", "1">>
  /\ selectedDeviceId = 2

\* C18: stopScanning() releases each reader at most once: the reader it would
\* release has never been released, no reader has been reset twice, and a call
\* with no reader held (a second teardown, or none ever acquired) resets nothing.
C18_TeardownIdempotent ==
  [][/\ codeReaderRef # 0 =>
          /\ readers[codeReaderRef].pc # "dead"
          /\ readers[codeReaderRef].resets = 0
     /\ \A r \in 1..Len(readers) : readers[r].resets <= 1
     /\ codeReaderRef = 0 =>
          /\ StopScanning(readers, codeReaderRef).readers = readers
          /\ \A r \in 1..Len(readers) : readers'[r].resets <= readers[r].resets]_vars
\* Stop Scanning, then unmount, with the reader released by the stop still around
C18_Witness ==
  /\ ~mounted /\ userStopped /\ codeReaderRef = 0
  /\ \E r \in 1..Len(readers) : readers[r].pc = "enum" /\ readers[r].resets = 1

C20_BlankSubmitNoop ==
  [][(\A i \in 1..Len(manualCode) : manualCode[i] = "s")
       => /\ handleManualSubmit(manualCode).calls = <<>>
          /\ handleManualSubmit(manualCode).manualCode = manualCode
          /\ ~SubmitEnabled
          /\ \A a \in 1..Len(attempts') :
               a > Len(attempts) => attempts'[a].origin # "manual"]_vars
\* the manual form is shown with a whitespace-only input
C20_Witness ==
  /\ mounted /\ ~scanning /\ IsNull(result) /\ ~loading
  /\ manualCode = <<"s">>

\* C21: a decoded code enters validateAndCheckIn exactly as the same code
\* submitted manually would with the currently selected event: on the mounted
\* page an accepted decode starts a validation of that code for the selected
\* event with one validate request (none only when no event is selected), and
\* what follows a reply does not depend on which path started the validation.
C21_ManualParity ==
  [][/\ \A r \in 1..Len(readers), text \in Codes :
          (mounted /\ DecodeCallback(r, text))
          => IF selectedEvent = "" THEN attempts' = attempts
             ELSE /\ Len(attempts') = Len(attempts) + 1
                  /\ attempts'[Len(attempts')].code = text
                  /\ attempts'[Len(attempts')].event = selectedEvent
                  /\ attempts'[Len(attempts')].sent = <<"validate">>
     /\ \A a, b \in Attempts :
          (/\ Settled(a) /\ Settled(b)
           /\ attempts[a].origin = "decode" /\ attempts[b].origin = "manual"
           /\ attempts[a].event = attempts[b].event
           /\ attempts[a].pc = attempts[b].pc
           /\ attempts[a].reply = attempts[b].reply)
          => (attempts'[a].pc = "commit" <=> attempts'[b].pc = "commit")]_vars

\* C22: when the validate or the commit request of an attempt fails in the
\* transport, the attempt returns (nothing escapes it), and on the mounted page
\* the result is the failure result with the network error text and no
\* attendee, and loading is cleared.
C22_NetworkErrorResult ==
  [][\A a \in Attempts :
       (/\ Settled(a)
        /\ ~Val(attempts[a].reply).ok
        /\ Val(attempts[a].reply).err.statusCode = 0)
       => /\ attempts'[a].pc = "done"
          /\ mounted =>
               /\ result' = Some([valid |-> FALSE, attendee |-> Null,
                                  message |-> Some("Network error. Please check your connection.")])
               /\ ~loading']_vars
\* a transport failure has been turned into a result
C22_Witness ==
  /\ mounted /\ ~loading
  /\ ~IsNull(result)
  /\ Val(result).message = Some("Network error. Please check your connection.")
  /\ \A a \in Attempts : ~InFlight(a)

\* C23: when the commit reply reports failure (success false), the attempt
\* returns and, on the mounted page, the result is the failure result with the
\* server's message, or "Check-in failed" when there is none, and no attendee.
C23_CommitFailure ==
  [][\A a \in Attempts :
       (CommitReturned(a) /\ ~ReplyBody(a).success)
       => /\ attempts'[a].pc = "done"
          /\ mounted =>
               /\ ~IsNull(result')
               /\ ~Val(result').valid
               /\ IsNull(Val(result').attendee)
               /\ Val(result').message =
                    IF IsNull(ReplyBody(a).message) THEN Some("Check-in failed")
                    ELSE ReplyBody(a).message]_vars
\* a refused check-in has been shown, once with the default message
C23_Witness ==
  /\ mounted /\ ~IsNull(result)
  /\ ~Val(result).valid
  /\ Val(result).message = Some("Check-in failed")
  /\ \A a \in Attempts : ~InFlight(a)

C25_AttendeePopulated ==
  [][\A a \in Attempts :
       (mounted /\ Settled(a) /\ attempts'[a].pc = "done")
       => /\ ~IsNull(result')
          /\ LET rep == Val(attempts[a].reply)
                 populated == ~IsNull(Val(result').attendee)
             IN IF ~rep.ok THEN ~populated
                ELSE IF attempts[a].pc = "commit" THEN (populated <=> rep.body.success)
                ELSE IF ~rep.body.valid \/ IsNull(rep.body.attendee) THEN ~populated
                ELSE populated]_vars

\* C26: the event of a scan session is fixed when scanning starts: a new reader
\* takes the event selected at Start Scanning, no step changes the event of a
\* reader or of a validation in flight (whatever happens to the selector), a
\* decoded code is validated against its reader's event, and a check-in is
\* requested only for an attendee of that event.
C26_SessionEventImmutable ==
  [][/\ Len(readers') = Len(readers) + 1 => readers'[Len(readers')].event = selectedEvent
     /\ \A r \in 1..Len(readers) :
          readers'[r] # DeadReader => readers'[r].event = readers[r].event
     /\ \A a \in Attempts :
          /\ (InFlight(a) /\ attempts'[a].pc # "done")
             => attempts'[a].event = attempts[a].event
          /\ (attempts[a].pc = "validate" /\ attempts'[a].pc = "commit")
             => Val(ReplyBody(a).attendee).eventId = attempts[a].event
     /\ DecodeStartsValidation
          => attempts'[Len(attempts')].event =
               readers[attempts'[Len(attempts')].reader].event]_vars
\* a decoded code is being validated for the event of its scan while the
\* selector shows another event
C26_Witness ==
  \E a \in Attempts :
    /\ FromDecode(a)
    /\ attempts[a].event = "E1"
    /\ selectedEvent = "E2"

\* The page lets the user act: no continuation is about to run and the loading
\* overlay is not shown (one of Start Scanning, Stop Scanning and Scan Next is
\* rendered in every state of the mounted page).
UserCanAct == Idle /\ ~loading
\* C27: on the mounted page loading is always cleared again, and whatever has
\* failed, the page always comes back to a state where the user can act.
C27_NoOutcomeFatal ==
  /\ (mounted /\ loading) ~> (~loading)
  /\ []<>(~mounted \/ UserCanAct)
\* after a camera failure and a failed request the user can act
C27_Witness ==
  /\ mounted /\ UserCanAct
  /\ ~IsNull(cameraError)
  /\ ~IsNull(result) /\ ~Val(result).valid
  /\ Val(result).message = Some("Server error. Please try again later.")

\* The HH:MM texts with hour * 60 + minute of each.
TimeTable ==
  {[text |-> <<"0", "0", ":", "0", "0">>, minutes |-> 0],
   [text |-> <<"0", "9", ":", "3", "0">>, minutes |-> 570],
   [text |-> <<"1", "0", ":", "0", "0">>, minutes |-> 600],
   [text |-> <<"1", "0", ":", "3", "0">>, minutes |-> 630],
   [text |-> <<"2", "3", ":", "5", "9">>, minutes |-> 1439],
   [text |-> <<"9", "9", ":", "9", "9">>, minutes |-> 6039]}
\* C28: a validated event form is accepted only if both times are HH:MM texts
\* and the minutes of the end time are strictly greater than those of the start
\* time; with the other fields in order it is accepted exactly then.
C28_EndAfterStart ==
  ~IsNull(form.success) =>
    LET ordered == \E st \in TimeTable, en \in TimeTable :
                     /\ st.text = form.eventStartTime
                     /\ en.text = form.eventEndTime
                     /\ en.minutes > st.minutes
    IN /\ Val(form.success) => ordered
       /\ form.rest => (Val(form.success) <=> ordered)
\* a form whose end time equals its start time has been rejected
C28_Witness ==
  /\ form.rest
  /\ form.eventStartTime = <<"1", "0", ":", "0", "0">>
  /\ form.eventEndTime = <<"1", "0", ":", "0", "0">>
  /\ form.success = Some(FALSE)

\* C29: scanning is never true while a result is set.
C29_ScanningExcludesResult == ~(scanning /\ ~IsNull(result))

\* C30: a decode callback of the mounted page that accepts a code while the
\* selectedEvent of its closure is empty sends no request and leaves result,
\* loading and cameraError as they are, and still sets scanning to false; the
\* same holds for a manual submission with no event selected.
C30_NoEventNoRequest ==
  [][/\ \A r \in 1..Len(readers), text \in Codes :
          (mounted /\ readers[r].event = "" /\ DecodeCallback(r, text))
          => /\ attempts' = attempts
             /\ result' = result /\ loading' = loading /\ cameraError' = cameraError
             /\ ~scanning'
     /\ (selectedEvent = "" /\ HandleManualSubmit)
          => (attempts' = attempts /\ result' = result /\ loading' = loading)]_vars
\* a code was decoded with no event selected: scanning is off (the effect has
\* released the reader), nothing was requested, no result and no error is shown
C30_Witness ==
  /\ mounted /\ ~scanning /\ ~EffectPending /\ ~userStopped
  /\ Len(readers) = 1 /\ readers[1] = DeadReader
  /\ attempts = <<>>
  /\ IsNull(result) /\ IsNull(cameraError) /\ ~loading

====
